---- MODULE Spec2Model ----
(***************************************************************************)
(* The exchange lifecycle of bookloop-api: ExchangeService, the exchange   *)
(* state machine and the listing status operations of ListingService,      *)
(* as concurrent request handlers over one shared store.                   *)
(*                                                                         *)
(* A request handler runs on the Node event loop: the code between two     *)
(* awaits is one atomic step, and every awaited repository call is one     *)
(* store operation.  Each action below is one such step.  Repository.save  *)
(* of a loaded entity is two store operations (TypeORM reloads the row,    *)
(* then UPDATEs the columns in which the entity differs from it), with no  *)
(* transaction or version column around them in this code base.            *)
(***************************************************************************)
EXTENDS Integers, Sequences, FiniteSets, TLC

\* Bounds on the number of exchanges ever created: in the sequential
\* specification, and in the specification of concurrent requests.
MaxExchanges == 2
MaxRaceExchanges == 1
\* ... and in the specification of all operations with an outside caller.
MaxOpsExchanges == 1

Users == {"A", "B"}
Listings == {"L1", "L2"}
Workers == {"w1", "w2"}
NoListing == "none"

\* A user who owns no listing and is party to no exchange, and the users a
\* request on an exchange may come from.
Outsider == "C"
Callers == Users \cup {Outsider}

\* listing.user_id, fixed at ListingService.create: L1 belongs to B, L2 to A.
ListingOwner(l) == IF l = "L1" THEN "B" ELSE "A"

VARIABLES
    listings,   \* listing id -> row of the listings table
    exchanges,  \* sequence of rows of the exchanges table, id = index
    wk,         \* worker -> the request it is handling and its position
    ratings,    \* sequence of rows of the ratings table, id = index
    users,      \* user id -> the statistics columns of the users table
    aged,       \* the exchanges whose completed_at is older than the
                \* visibility delay of the ratings
    otps,       \* sequence of rows of the otp_verifications table of one
                \* phone, in the order of created_at
    tries,      \* history: the verifyOTP calls made with a code of no
                \* unverified row since the newest OTP was sent
    payments,   \* sequence of rows of the payments table, reference = index
    subscriptions,  \* user id -> tier of the user's subscription
    upgrades    \* history: the upgradeSubscription calls that returned a
                \* subscription, as <<user, payment reference>>

vars == <<listings, exchanges, wk, ratings, users, aged,
          otps, tries, payments, subscriptions, upgrades>>

\* The state of OtpService and PaymentsService, and the state of the
\* exchange, listing and rating services.
avars == <<otps, tries, payments, subscriptions, upgrades>>
mvars == <<listings, exchanges, wk, ratings, users, aged>>

\* The state of RatingService and of the user statistics.
rvars == <<ratings, users, aged>>

ListingStatuses == {"available", "reserved", "exchanged", "expired", "cancelled"}
ExchangeStatuses == {"pending", "accepted", "declined", "completed", "cancelled"}

\* The columns of Exchange that a handler may change after creation.
Columns ==
    {"status", "requester_confirmed_meetup", "owner_confirmed_meetup",
     "requester_confirmed_completion", "owner_confirmed_completion",
     "meetup", "completed_at"}

\* exchangeRepository.create({...}) in createExchange.
NewExchange(requesterId, ownerId, listingId, offeredId) ==
    [requester_id |-> requesterId,
     owner_id |-> ownerId,
     listing_id |-> listingId,
     offered_listing_id |-> offeredId,
     status |-> "pending",
     requester_confirmed_meetup |-> FALSE,
     owner_confirmed_meetup |-> FALSE,
     requester_confirmed_completion |-> FALSE,
     owner_confirmed_completion |-> FALSE,
     meetup |-> "null",
     completed_at |-> "null"]

NoEnt == NewExchange("none", "none", NoListing, NoListing)

\* The statistics columns of a new user: total_exchanges, rating (the
\* average, a decimal(3,2) held in hundredths) and total_ratings.
NoStats == [total_exchanges |-> 0, rating |-> 0, total_ratings |-> 0]

IdleWorker ==
    [pc |-> "idle", op |-> "none", ex |-> 0, user |-> "none",
     ent |-> NoEnt, diff |-> {}, lid |-> NoListing, rd |-> "none",
     res |-> "none", acts |-> {}, n |-> 0, oid |-> 0, ust |-> NoStats]

\* A handler that has just loaded its arguments.
Started(op, e, u, ent, rd) ==
    [IdleWorker EXCEPT !.op = op, !.ex = e, !.user = u, !.ent = ent, !.rd = rd]

\* A handler that returns (res = "ok") or throws (any other res); lid stays
\* the listing it worked on last.
Ended(rec, r) ==
    [rec EXCEPT !.pc = "done", !.res = r, !.ent = NoEnt, !.diff = {}]

ExchangeIds == 1..Len(exchanges)

----------------------------------------------------------------------------
(* The state machine: one class per state, dispatched on exchange.status.  *)

\* PendingState.accept sets the status; every other state's accept throws.
SMAccept(ent) ==
    IF ent.status = "pending"
    THEN [ok |-> TRUE, ent |-> [ent EXCEPT !.status = "accepted"]]
    ELSE [ok |-> FALSE, ent |-> ent]

\* A faulty decline that sets the status cancel sets.
SMDeclineAsCancel(ent) ==
    IF ent.status = "pending"
    THEN [ok |-> TRUE, ent |-> [ent EXCEPT !.status = "cancelled"]]
    ELSE [ok |-> FALSE, ent |-> ent]

\* PendingState.decline sets the status; every other state's decline throws.
SMDecline(ent) ==
    IF ent.status = "pending"
    THEN [ok |-> TRUE, ent |-> [ent EXCEPT !.status = "declined"]]
    ELSE [ok |-> FALSE, ent |-> ent]

\* A faulty cancel that no state rejects.
SMCancelAnyState(ent) ==
    [ok |-> TRUE, ent |-> [ent EXCEPT !.status = "cancelled"]]

\* PendingState.cancel and AcceptedState.cancel set the status; the terminal
\* states throw.
SMCancel(ent) ==
    IF ent.status \in {"pending", "accepted"}
    THEN [ok |-> TRUE, ent |-> [ent EXCEPT !.status = "cancelled"]]
    ELSE [ok |-> FALSE, ent |-> ent]

\* AcceptedState.complete: throws unless both completion flags are set.
SMComplete(ent) ==
    IF /\ ent.status = "accepted"
       /\ ent.requester_confirmed_completion
       /\ ent.owner_confirmed_completion
    THEN [ok |-> TRUE,
          ent |-> [ent EXCEPT !.status = "completed", !.completed_at = "date"]]
    ELSE [ok |-> FALSE, ent |-> ent]

\* isTerminal of the state classes: true for declined, completed, cancelled.
IsTerminal(status) == status \in {"declined", "completed", "cancelled"}

\* ExchangeStateMachine.getAvailableActions.
SMGetAvailableActions(ent, u) ==
    IF IsTerminal(ent.status) THEN {}
    ELSE IF ent.status = "pending"
    THEN (IF u = ent.owner_id THEN {"accept", "decline"} ELSE {})
         \cup {"cancel"}
    ELSE (IF \/ ~ent.requester_confirmed_meetup /\ u = ent.requester_id
             \/ ~ent.owner_confirmed_meetup /\ u = ent.owner_id
          THEN {"confirm_meetup"} ELSE {})
         \cup
         (IF \/ ~ent.requester_confirmed_completion /\ u = ent.requester_id
             \/ ~ent.owner_confirmed_completion /\ u = ent.owner_id
          THEN {"confirm_completion"} ELSE {})
         \cup {"cancel"}

\* ExchangeStateMachine.isValidTransition.
IsValidTransition(fromStatus, toStatus) ==
    CASE fromStatus = "pending" ->
            toStatus \in {"accepted", "declined", "cancelled"}
      [] fromStatus = "accepted" -> toStatus \in {"completed", "cancelled"}
      [] OTHER -> FALSE

----------------------------------------------------------------------------
(* Repository.save(entity) of a loaded exchange.                           *)

\* The columns in which the in-memory entity differs from the stored row.
Diff(ent, row) == {c \in Columns : ent[c] # row[c]}

\* UPDATE exchanges SET <the differing columns> WHERE id = ...
ApplyDiff(row, ent, d) ==
    [c \in DOMAIN row |-> IF c \in d THEN ent[c] ELSE row[c]]

SaveLoad(w) ==
    /\ wk[w].pc = "save_load"
    /\ wk' = [wk EXCEPT ![w] =
                [@ EXCEPT !.pc = "save_write",
                          !.diff = Diff(wk[w].ent, exchanges[wk[w].ex])]]
    /\ UNCHANGED <<listings, exchanges, rvars, avars>>

\* What the handler does once its save has returned.
AfterSave(rec) ==
    CASE rec.op = "accept" ->
            \* markAsReserved(exchange.listing_id)
            [rec EXCEPT !.pc = "res_read", !.lid = rec.ent.listing_id,
                        !.diff = {}]
      [] rec.op = "cancel" ->
            \* if (exchange.status === 'accepted'), tested on the entity the
            \* state machine has already set to 'cancelled'
            IF rec.ent.status = "accepted"
            THEN [rec EXCEPT !.pc = "rel_find", !.lid = rec.ent.listing_id,
                             !.diff = {}]
            ELSE Ended(rec, "ok")
      [] OTHER -> Ended(rec, "ok")

SaveWrite(w) ==
    /\ wk[w].pc = "save_write"
    /\ exchanges' = [exchanges EXCEPT ![wk[w].ex] =
                        ApplyDiff(@, wk[w].ent, wk[w].diff)]
    /\ wk' = [wk EXCEPT ![w] = AfterSave(@)]
    /\ UNCHANGED <<listings, rvars, avars>>

----------------------------------------------------------------------------
(* ListingService: status operations.                                      *)

\* markAsReserved: findById and the availability check.
MarkAsReservedCheck(w) ==
    /\ wk[w].pc = "res_read"
    /\ wk' = [wk EXCEPT ![w] =
                IF listings[@.lid].status # "available"
                THEN Ended(@, "listing_not_available")
                ELSE [@ EXCEPT !.pc = "res_write"]]
    /\ UNCHANGED <<listings, exchanges, rvars, avars>>

\* acceptExchange after a markAsReserved has returned: the offered listing
\* next, when there is one, else the handler returns.
AfterReserved(rec) ==
    IF rec.lid = rec.ent.listing_id /\ rec.ent.offered_listing_id # NoListing
    THEN [rec EXCEPT !.pc = "res_read", !.lid = rec.ent.offered_listing_id]
    ELSE Ended(rec, "ok")

\* markAsReserved: the unconditional update by id.  (held_by is no column
\* of the table: it records which exchange's accept wrote reserved last.)
MarkAsReservedUpdate(w) ==
    /\ wk[w].pc = "res_write"
    /\ listings' = [listings EXCEPT ![wk[w].lid] =
                      [@ EXCEPT !.status = "reserved", !.held_by = wk[w].ex]]
    /\ wk' = [wk EXCEPT ![w] = AfterReserved(@)]
    /\ UNCHANGED <<exchanges, rvars, avars>>

\* markAsExchanged: findById and the reserved check.
MarkAsExchangedCheck(w) ==
    /\ wk[w].pc = "exch_read"
    /\ wk' = [wk EXCEPT ![w] =
                IF listings[@.lid].status # "reserved"
                THEN Ended(@, "listing_not_reserved")
                ELSE [@ EXCEPT !.pc = "exch_write"]]
    /\ UNCHANGED <<listings, exchanges, rvars, avars>>

\* confirmCompletion after a markAsExchanged has returned: the offered
\* listing next, when there is one, else the save of the exchange.
AfterExchanged(rec) ==
    IF rec.lid = rec.ent.listing_id /\ rec.ent.offered_listing_id # NoListing
    THEN [rec EXCEPT !.pc = "exch_read", !.lid = rec.ent.offered_listing_id]
    ELSE [rec EXCEPT !.pc = "save_load", !.lid = NoListing]

\* markAsExchanged: the unconditional update by id.
MarkAsExchangedUpdate(w) ==
    /\ wk[w].pc = "exch_write"
    /\ listings' = [listings EXCEPT ![wk[w].lid].status = "exchanged"]
    /\ wk' = [wk EXCEPT ![w] = AfterExchanged(@)]
    /\ UNCHANGED <<exchanges, rvars, avars>>

\* ListingService.cancel: findById, owner check, exchanged check.
ListingCancelBegin(w, l, u) ==
    /\ wk[w].pc = "idle"
    /\ LET rec == [Started("listing_cancel", 0, u, NoEnt, listings[l].status)
                     EXCEPT !.lid = l]
       IN wk' = [wk EXCEPT ![w] =
                   IF listings[l].user_id # u THEN Ended(rec, "forbidden")
                   ELSE IF listings[l].status = "exchanged"
                        THEN Ended(rec, "bad_request")
                        ELSE [rec EXCEPT !.pc = "lcancel_write"]]
    /\ UNCHANGED <<listings, exchanges, rvars, avars>>

\* ListingService.cancel: the update by id.
ListingCancelUpdate(w) ==
    /\ wk[w].pc = "lcancel_write"
    /\ listings' = [listings EXCEPT ![wk[w].lid].status = "cancelled"]
    /\ wk' = [wk EXCEPT ![w] = Ended(@, "ok")]
    /\ UNCHANGED <<exchanges, rvars, avars>>

\* ListingService.reactivate: findById, owner check, cancelled check and the
\* expiry test that chooses the update.
ReactivateCheck(rec, l, u) ==
    IF listings[l].user_id # u THEN Ended(rec, "forbidden")
    ELSE IF listings[l].status # "cancelled" THEN Ended(rec, "bad_request")
    ELSE [rec EXCEPT !.pc = "react_write", !.lid = l,
                     !.rd = IF listings[l].expired THEN "extend" ELSE "keep"]

ReactivateBegin(w, l, u) ==
    /\ wk[w].pc = "idle"
    /\ wk' = [wk EXCEPT ![w] =
                ReactivateCheck(Started("reactivate", 0, u, NoEnt, "none"), l, u)]
    /\ UNCHANGED <<listings, exchanges, rvars, avars>>

\* ListingService.reactivate: the update (status, and expires_at when the
\* listing had expired).
ReactivateUpdate(w) ==
    /\ wk[w].pc = "react_write"
    /\ listings' = [listings EXCEPT ![wk[w].lid] =
                      [@ EXCEPT !.status = "available",
                                !.expired = IF wk[w].rd = "extend"
                                            THEN FALSE ELSE @]]
    /\ wk' = [wk EXCEPT ![w] = Ended(@, "ok")]
    /\ UNCHANGED <<exchanges, rvars, avars>>

\* ListingService.expireOldListings: one UPDATE ... WHERE status = 'available'
\* AND expires_at < NOW().
ExpireOldListings ==
    /\ listings' = [l \in Listings |->
                      IF listings[l].status = "available" /\ listings[l].expired
                      THEN [listings[l] EXCEPT !.status = "expired"]
                      ELSE listings[l]]
    /\ UNCHANGED <<exchanges, wk, rvars, avars>>

\* A faulty sweep without the status condition.
ExpireOldListingsCallAnyStatus(w) ==
    /\ wk[w].pc = "idle"
    /\ listings' = [l \in Listings |->
                      IF listings[l].expired
                      THEN [listings[l] EXCEPT !.status = "expired"]
                      ELSE listings[l]]
    /\ wk' = [wk EXCEPT ![w] =
                Ended([Started("expire", 0, "none", NoEnt, "none") EXCEPT
                          !.n = Cardinality({l \in Listings :
                                                listings[l].expired})],
                      "ok")]
    /\ UNCHANGED <<exchanges, rvars, avars>>

\* ListingService.expireOldListings called by the scheduled task: the one
\* UPDATE, and result.affected returned in n.
ExpireOldListingsCall(w) ==
    /\ wk[w].pc = "idle"
    /\ listings' = [l \in Listings |->
                      IF listings[l].status = "available" /\ listings[l].expired
                      THEN [listings[l] EXCEPT !.status = "expired"]
                      ELSE listings[l]]
    /\ wk' = [wk EXCEPT ![w] =
                Ended([Started("expire", 0, "none", NoEnt, "none") EXCEPT
                          !.n = Cardinality({l \in Listings :
                                                /\ listings[l].status = "available"
                                                /\ listings[l].expired})],
                      "ok")]
    /\ UNCHANGED <<exchanges, rvars, avars>>

\* Time passes the expires_at of listing l.
Tick(l) ==
    /\ ~listings[l].expired
    /\ listings' = [listings EXCEPT ![l].expired = TRUE]
    /\ UNCHANGED <<exchanges, wk, rvars, avars>>

----------------------------------------------------------------------------
(* ExchangeService.                                                        *)

Creating == {w \in Workers : wk[w].op = "create" /\ wk[w].pc # "done"}

\* A faulty createExchange without the test for the requester's own listing.
CreateExchangeBeginOwnListing(w, u, l, o) ==
    /\ wk[w].pc = "idle"
    /\ LET rec == [Started("create", 0, u,
                           NewExchange(u, listings[l].user_id, l, o), "none")
                     EXCEPT !.lid = l]
       IN wk' = [wk EXCEPT ![w] =
                   IF listings[l].status # "available"
                   THEN Ended(rec, "bad_request")
                   ELSE IF o # NoListing
                        THEN [rec EXCEPT !.pc = "cr_offered"]
                        ELSE [rec EXCEPT !.pc = "cr_incr"]]
    /\ UNCHANGED <<listings, exchanges, rvars, avars>>

\* createExchange: findById of the requested listing and its checks.
CreateExchangeBegin(w, u, l, o) ==
    /\ wk[w].pc = "idle"
    /\ LET rec == [Started("create", 0, u,
                           NewExchange(u, listings[l].user_id, l, o), "none")
                     EXCEPT !.lid = l]
       IN wk' = [wk EXCEPT ![w] =
                   IF listings[l].status # "available"
                   THEN Ended(rec, "bad_request")
                   ELSE IF listings[l].user_id = u
                        THEN Ended(rec, "bad_request")
                        ELSE IF o # NoListing
                             THEN [rec EXCEPT !.pc = "cr_offered"]
                             ELSE [rec EXCEPT !.pc = "cr_incr"]]
    /\ UNCHANGED <<listings, exchanges, rvars, avars>>

\* A faulty createExchange that does not test the offered listing's status.
CreateExchangeOfferedAnyStatus(w) ==
    /\ wk[w].pc = "cr_offered"
    /\ LET o == wk[w].ent.offered_listing_id
       IN wk' = [wk EXCEPT ![w] =
                   IF listings[o].user_id # @.user
                   THEN Ended(@, "forbidden")
                   ELSE [@ EXCEPT !.pc = "cr_incr"]]
    /\ UNCHANGED <<listings, exchanges, rvars, avars>>

\* createExchange: findById of the offered listing and its checks.
CreateExchangeOffered(w) ==
    /\ wk[w].pc = "cr_offered"
    /\ LET o == wk[w].ent.offered_listing_id
       IN wk' = [wk EXCEPT ![w] =
                   IF listings[o].user_id # @.user
                   THEN Ended(@, "forbidden")
                   ELSE IF listings[o].status # "available"
                        THEN Ended(@, "bad_request")
                        ELSE [@ EXCEPT !.pc = "cr_incr"]]
    /\ UNCHANGED <<listings, exchanges, rvars, avars>>

\* A faulty createExchange that reserves the requested listing at once.
CreateExchangeInterestReserves(w) ==
    /\ wk[w].pc = "cr_incr"
    /\ listings' = [listings EXCEPT ![wk[w].lid] =
                      [@ EXCEPT !.interest_count = @ + 1,
                                !.status = "reserved"]]
    /\ wk' = [wk EXCEPT ![w].pc = "cr_insert"]
    /\ UNCHANGED <<exchanges, rvars, avars>>

\* createExchange: listingService.incrementInterest.
CreateExchangeInterest(w) ==
    /\ wk[w].pc = "cr_incr"
    /\ listings' = [listings EXCEPT ![wk[w].lid].interest_count = @ + 1]
    /\ wk' = [wk EXCEPT ![w].pc = "cr_insert"]
    /\ UNCHANGED <<exchanges, rvars, avars>>

\* createExchange: the INSERT of the new exchange.
CreateExchangeInsert(w) ==
    /\ wk[w].pc = "cr_insert"
    /\ exchanges' = Append(exchanges, wk[w].ent)
    /\ wk' = [wk EXCEPT ![w] = Ended([@ EXCEPT !.ex = Len(exchanges) + 1], "ok")]
    /\ UNCHANGED <<listings, rvars, avars>>

\* acceptExchange up to its save: findById, owner check, state machine.
\* (The optional owner_response text is not modelled.)
AcceptExchangeBegin(w, e, u) ==
    /\ wk[w].pc = "idle"
    /\ e \in ExchangeIds
    /\ LET ent == exchanges[e]
           t == SMAccept(ent)
           rec == Started("accept", e, u, t.ent, ent.status)
       IN wk' = [wk EXCEPT ![w] =
                   IF ent.owner_id # u THEN Ended(rec, "forbidden")
                   ELSE IF ~t.ok THEN Ended(rec, "invalid_transition")
                   ELSE [rec EXCEPT !.pc = "save_load"]]
    /\ UNCHANGED <<listings, exchanges, rvars, avars>>

\* declineExchange up to its save.
DeclineExchangeBegin(w, e, u) ==
    /\ wk[w].pc = "idle"
    /\ e \in ExchangeIds
    /\ LET ent == exchanges[e]
           t == SMDecline(ent)
           rec == Started("decline", e, u, t.ent, ent.status)
       IN wk' = [wk EXCEPT ![w] =
                   IF ent.owner_id # u THEN Ended(rec, "forbidden")
                   ELSE IF ~t.ok THEN Ended(rec, "invalid_transition")
                   ELSE [rec EXCEPT !.pc = "save_load"]]
    /\ UNCHANGED <<listings, exchanges, rvars, avars>>

\* A faulty cancelExchange without the participant test.
CancelExchangeBeginNoAuth(w, e, u) ==
    /\ wk[w].pc = "idle"
    /\ e \in ExchangeIds
    /\ LET ent == exchanges[e]
           t == SMCancel(ent)
           rec == Started("cancel", e, u, t.ent, ent.status)
       IN wk' = [wk EXCEPT ![w] =
                   IF ~t.ok THEN Ended(rec, "invalid_transition")
                   ELSE [rec EXCEPT !.pc = "save_load"]]
    /\ UNCHANGED <<listings, exchanges, rvars, avars>>

\* cancelExchange up to its save.
CancelExchangeBegin(w, e, u) ==
    /\ wk[w].pc = "idle"
    /\ e \in ExchangeIds
    /\ LET ent == exchanges[e]
           t == SMCancel(ent)
           rec == Started("cancel", e, u, t.ent, ent.status)
       IN wk' = [wk EXCEPT ![w] =
                   IF ent.requester_id # u /\ ent.owner_id # u
                   THEN Ended(rec, "forbidden")
                   ELSE IF ~t.ok THEN Ended(rec, "invalid_transition")
                   ELSE [rec EXCEPT !.pc = "save_load"]]
    /\ UNCHANGED <<listings, exchanges, rvars, avars>>

\* cancelExchange, the branch behind if (exchange.status === 'accepted'):
\* findById of the listing and, when it is reserved, reactivate's checks.
CancelExchangeRelease(w) ==
    /\ wk[w].pc = "rel_find"
    /\ LET l == wk[w].lid
           next == IF l = wk[w].ent.listing_id
                      /\ wk[w].ent.offered_listing_id # NoListing
                   THEN [wk[w] EXCEPT !.lid = wk[w].ent.offered_listing_id]
                   ELSE Ended(wk[w], "ok")
       IN wk' = [wk EXCEPT ![w] =
                   IF listings[l].status = "reserved"
                   THEN ReactivateCheck(@, l, listings[l].user_id)
                   ELSE next]
    /\ UNCHANGED <<listings, exchanges, rvars, avars>>

\* confirmCompletion's in-memory part: the caller's flag, and the state
\* machine's complete when both flags are then set.
ConfirmCompletionEntity(ent, u) ==
    LET flagged == IF u = ent.requester_id
                   THEN [ent EXCEPT !.requester_confirmed_completion = TRUE]
                   ELSE [ent EXCEPT !.owner_confirmed_completion = TRUE]
    IN IF flagged.requester_confirmed_completion
          /\ flagged.owner_confirmed_completion
       THEN SMComplete(flagged)
       ELSE [ok |-> TRUE, ent |-> flagged]

\* confirmCompletion up to its first listing update or its save.
ConfirmCompletionBegin(w, e, u) ==
    /\ wk[w].pc = "idle"
    /\ e \in ExchangeIds
    /\ LET ent == exchanges[e]
           t == ConfirmCompletionEntity(ent, u)
           rec == Started("confirm_completion", e, u, t.ent, ent.status)
       IN wk' = [wk EXCEPT ![w] =
                   IF ent.requester_id # u /\ ent.owner_id # u
                   THEN Ended(rec, "forbidden")
                   ELSE IF ent.status # "accepted" THEN Ended(rec, "bad_request")
                   ELSE IF ~t.ok THEN Ended(rec, "bad_request")
                   ELSE IF t.ent.status = "completed"
                        THEN [rec EXCEPT !.pc = "exch_read",
                                         !.lid = ent.listing_id]
                        ELSE [rec EXCEPT !.pc = "save_load"]]
    /\ UNCHANGED <<listings, exchanges, rvars, avars>>

\* setMeetupDetails up to its save: location, address and time are set
\* together.
SetMeetupDetailsBegin(w, e, u) ==
    /\ wk[w].pc = "idle"
    /\ e \in ExchangeIds
    /\ LET ent == exchanges[e]
           rec == Started("set_meetup", e, u, [ent EXCEPT !.meetup = "set"],
                          ent.status)
       IN wk' = [wk EXCEPT ![w] =
                   IF ent.requester_id # u /\ ent.owner_id # u
                   THEN Ended(rec, "forbidden")
                   ELSE IF ent.status # "accepted" THEN Ended(rec, "bad_request")
                   ELSE [rec EXCEPT !.pc = "save_load"]]
    /\ UNCHANGED <<listings, exchanges, rvars, avars>>

\* A faulty confirmMeetup that refuses a caller who has already confirmed.
ConfirmMeetupBeginOnce(w, e, u) ==
    /\ wk[w].pc = "idle"
    /\ e \in ExchangeIds
    /\ LET ent == exchanges[e]
           flagged == IF u = ent.requester_id
                      THEN [ent EXCEPT !.requester_confirmed_meetup = TRUE]
                      ELSE [ent EXCEPT !.owner_confirmed_meetup = TRUE]
           rec == Started("confirm_meetup", e, u, flagged, ent.status)
       IN wk' = [wk EXCEPT ![w] =
                   IF ent.requester_id # u /\ ent.owner_id # u
                   THEN Ended(rec, "forbidden")
                   ELSE IF ent.status # "accepted" THEN Ended(rec, "bad_request")
                   ELSE IF ent.meetup = "null" THEN Ended(rec, "bad_request")
                   ELSE IF flagged = ent THEN Ended(rec, "bad_request")
                   ELSE [rec EXCEPT !.pc = "save_load"]]
    /\ UNCHANGED <<listings, exchanges, rvars, avars>>

\* confirmMeetup up to its save.
ConfirmMeetupBegin(w, e, u) ==
    /\ wk[w].pc = "idle"
    /\ e \in ExchangeIds
    /\ LET ent == exchanges[e]
           flagged == IF u = ent.requester_id
                      THEN [ent EXCEPT !.requester_confirmed_meetup = TRUE]
                      ELSE [ent EXCEPT !.owner_confirmed_meetup = TRUE]
           rec == Started("confirm_meetup", e, u, flagged, ent.status)
       IN wk' = [wk EXCEPT ![w] =
                   IF ent.requester_id # u /\ ent.owner_id # u
                   THEN Ended(rec, "forbidden")
                   ELSE IF ent.status # "accepted" THEN Ended(rec, "bad_request")
                   ELSE IF ent.meetup = "null" THEN Ended(rec, "bad_request")
                   ELSE [rec EXCEPT !.pc = "save_load"]]
    /\ UNCHANGED <<listings, exchanges, rvars, avars>>

\* ExchangeService.getAvailableActions: findById, the participant test and
\* the state machine's answer, returned in acts.
GetAvailableActions(w, e, u) ==
    /\ wk[w].pc = "idle"
    /\ e \in ExchangeIds
    /\ LET ent == exchanges[e]
           rec == Started("actions", e, u, ent, ent.status)
       IN wk' = [wk EXCEPT ![w] =
                   Ended([rec EXCEPT !.acts =
                            IF ent.requester_id # u /\ ent.owner_id # u
                            THEN {}
                            ELSE SMGetAvailableActions(ent, u)], "ok")]
    /\ UNCHANGED <<listings, exchanges, rvars, avars>>

----------------------------------------------------------------------------
(* RatingService and UserService.updateExchangeStatistics.                 *)

RatingIds == 1..Len(ratings)

\* The other party of exchange row ent, seen from party u.
OtherParty(ent, u) ==
    IF u = ent.requester_id THEN ent.owner_id ELSE ent.requester_id

\* findOne({exchange_id, rater_id, rated_user_id}) on the rating table rs.
FindIn(rs, e, rater, rated) ==
    LET hit == {i \in 1..Len(rs) : /\ rs[i].exchange_id = e
                                   /\ rs[i].rater_id = rater
                                   /\ rs[i].rated_user_id = rated}
    IN IF hit = {} THEN 0 ELSE CHOOSE i \in hit : TRUE

\* ratingRepository.findOne({exchange_id, rater_id, rated_user_id}): the id
\* of the matching row, 0 when there is none.
FindRating(e, rater, rated) == FindIn(ratings, e, rater, rated)

\* num / den rounded to the nearest integer, as the decimal(3,2) column
\* rounds the average it is given.
Round(num, den) == (2 * num + den) \div (2 * den)

\* createRating up to its first rating query: the value test, findOne of
\* the exchange, the completed test and the participant test.
CreateRatingBegin(w, e, u, v) ==
    /\ wk[w].pc = "idle"
    /\ e \in ExchangeIds
    /\ LET ent == exchanges[e]
           rec == [Started("rate", e, u, NoEnt, ent.status) EXCEPT !.n = v]
       IN wk' = [wk EXCEPT ![w] =
                   IF v < 1 \/ v > 5 THEN Ended(rec, "bad_request")
                   ELSE IF ent.status # "completed"
                   THEN Ended(rec, "bad_request")
                   ELSE IF u # ent.requester_id /\ u # ent.owner_id
                   THEN Ended(rec, "forbidden")
                   ELSE [rec EXCEPT !.pc = "rt_existing"]]
    /\ UNCHANGED <<listings, exchanges, rvars, avars>>

\* createRating: findOne of the caller's own rating of this exchange.
CreateRatingExisting(w) ==
    /\ wk[w].pc = "rt_existing"
    /\ LET u == wk[w].user
           rated == OtherParty(exchanges[wk[w].ex], u)
       IN wk' = [wk EXCEPT ![w] =
                   IF FindRating(@.ex, u, rated) # 0
                   THEN Ended(@, "bad_request")
                   ELSE [@ EXCEPT !.pc = "rt_other"]]
    /\ UNCHANGED <<listings, exchanges, rvars, avars>>

\* createRating: findOne of the other party's rating; bothRated is oid # 0.
CreateRatingOther(w) ==
    /\ wk[w].pc = "rt_other"
    /\ LET u == wk[w].user
           rated == OtherParty(exchanges[wk[w].ex], u)
       IN wk' = [wk EXCEPT ![w] =
                   [@ EXCEPT !.pc = "rt_insert",
                             !.oid = FindRating(wk[w].ex, rated, u)]]
    /\ UNCHANGED <<listings, exchanges, rvars, avars>>

\* The INSERT of a table that has no unique constraint.
CreateRatingInsertNoUnique(w) ==
    /\ wk[w].pc = "rt_insert"
    /\ ratings' = Append(ratings,
                         [exchange_id |-> wk[w].ex,
                          rater_id |-> wk[w].user,
                          rated_user_id |->
                              OtherParty(exchanges[wk[w].ex], wk[w].user),
                          rating |-> wk[w].n,
                          is_visible |-> wk[w].oid # 0])
    /\ wk' = [wk EXCEPT ![w].pc =
                IF wk[w].oid # 0 THEN "rt_flip" ELSE "rt_stat_read"]
    /\ UNCHANGED <<listings, exchanges, users, aged, avars>>

\* createRating: the INSERT of the rating, which the unique constraint on
\* (exchange_id, rater_id, rated_user_id) makes fail for a second row.
CreateRatingInsert(w) ==
    /\ wk[w].pc = "rt_insert"
    /\ LET u == wk[w].user
           rated == OtherParty(exchanges[wk[w].ex], u)
       IN IF FindRating(wk[w].ex, u, rated) # 0
          THEN /\ wk' = [wk EXCEPT ![w] = Ended(@, "query_failed")]
               /\ UNCHANGED ratings
          ELSE /\ ratings' = Append(ratings,
                                    [exchange_id |-> wk[w].ex,
                                     rater_id |-> u,
                                     rated_user_id |-> rated,
                                     rating |-> wk[w].n,
                                     is_visible |-> wk[w].oid # 0])
               /\ wk' = [wk EXCEPT ![w].pc =
                           IF wk[w].oid # 0 THEN "rt_flip" ELSE "rt_stat_read"]
    /\ UNCHANGED <<listings, exchanges, users, aged, avars>>

\* createRating without its update of the other party's rating.
CreateRatingFlipSkipped(w) ==
    /\ wk[w].pc = "rt_flip"
    /\ wk' = [wk EXCEPT ![w].pc = "rt_stat_read"]
    /\ UNCHANGED <<listings, exchanges, rvars, avars>>

\* createRating: the update that makes the other party's rating visible.
CreateRatingFlip(w) ==
    /\ wk[w].pc = "rt_flip"
    /\ ratings' = [ratings EXCEPT ![wk[w].oid].is_visible = TRUE]
    /\ wk' = [wk EXCEPT ![w].pc = "rt_stat_read"]
    /\ UNCHANGED <<listings, exchanges, users, aged, avars>>

\* updateExchangeStatistics: the columns written for a user row read as
\* old and a rating v.
NewStats(old, v) ==
    LET newTotalRatings == old.total_ratings + 1
    IN [total_exchanges |-> old.total_exchanges + 1,
        rating |-> Round(old.rating * old.total_ratings + 100 * v,
                         newTotalRatings),
        total_ratings |-> newTotalRatings]

\* updateExchangeStatistics: findById of the rated user.
UpdateExchangeStatisticsRead(w) ==
    /\ wk[w].pc = "rt_stat_read"
    /\ wk' = [wk EXCEPT ![w] =
                [@ EXCEPT !.pc = "rt_stat_write",
                          !.ust = users[OtherParty(exchanges[wk[w].ex],
                                                   wk[w].user)]]]
    /\ UNCHANGED <<listings, exchanges, rvars, avars>>

\* updateExchangeStatistics: the new totals and average computed from the
\* user row read, and the update; createRating then returns.
UpdateExchangeStatisticsWrite(w) ==
    /\ wk[w].pc = "rt_stat_write"
    /\ users' = [users EXCEPT
                   ![OtherParty(exchanges[wk[w].ex], wk[w].user)] =
                       NewStats(wk[w].ust, wk[w].n)]
    /\ wk' = [wk EXCEPT ![w] = Ended([@ EXCEPT !.ust = NoStats], "ok")]
    /\ UNCHANGED <<listings, exchanges, ratings, aged, avars>>

\* updateExchangeStatistics throws, findById finding no user or the store
\* refusing a query: createRating has no handler for it and throws too.
UpdateExchangeStatisticsThrows(w) ==
    /\ wk[w].pc \in {"rt_stat_read", "rt_stat_write"}
    /\ wk' = [wk EXCEPT ![w] = Ended([@ EXCEPT !.ust = NoStats], "stats_failed")]
    /\ UNCHANGED <<listings, exchanges, rvars, avars>>

\* The ratings makeOldRatingsVisible is due to show: hidden, of an exchange
\* whose completed_at is older than the delay.
Overdue ==
    {i \in RatingIds : ~ratings[i].is_visible /\ ratings[i].exchange_id \in aged}

\* The rating table rs after the UPDATE of makeOldRatingsVisible, ag being
\* the exchanges whose completed_at is before the cutoff date.
Shown(rs, ag) ==
    [i \in 1..Len(rs) |->
        IF ~rs[i].is_visible /\ rs[i].exchange_id \in ag
        THEN [rs[i] EXCEPT !.is_visible = TRUE]
        ELSE rs[i]]

\* createRating throws BadRequestException: the value is out of range, the
\* exchange is not completed, or the rater, a party, has rated it already.
IsBadRating(rs, e, ent, u, v) ==
    \/ v < 1 \/ v > 5
    \/ ent.status # "completed"
    \/ /\ u = ent.requester_id \/ u = ent.owner_id
       /\ FindIn(rs, e, u, OtherParty(ent, u)) # 0

\* The rating table rs after a createRating call that nothing interleaves
\* with: rater u rates exchange e, whose row is ent, with value v.
Rated(rs, e, ent, u, v) ==
    LET rated == OtherParty(ent, u)
        oid == FindIn(rs, e, rated, u)
        saved == Append(rs, [exchange_id |-> e, rater_id |-> u,
                             rated_user_id |-> rated, rating |-> v,
                             is_visible |-> oid # 0])
    IN IF \/ v < 1 \/ v > 5
          \/ ent.status # "completed"
          \/ ~(u = ent.requester_id \/ u = ent.owner_id)
          \/ FindIn(rs, e, u, rated) # 0
       THEN rs
       ELSE IF oid # 0 THEN [saved EXCEPT ![oid].is_visible = TRUE]
       ELSE saved

\* createRating as one step, for requests that are served one at a time.
CreateRatingCall(w, e, u, v) ==
    /\ wk[w].pc = "idle"
    /\ e \in ExchangeIds
    /\ LET ent == exchanges[e]
           rec == [Started("rate", e, u, NoEnt, ent.status) EXCEPT !.n = v]
           ok == Rated(ratings, e, ent, u, v) # ratings
       IN /\ ratings' = Rated(ratings, e, ent, u, v)
          /\ users' = IF ok
                      THEN [users EXCEPT ![OtherParty(ent, u)] =
                                            NewStats(@, v)]
                      ELSE users
          /\ wk' = [wk EXCEPT ![w] =
                      Ended(rec, IF ok THEN "ok"
                                 ELSE IF IsBadRating(ratings, e, ent, u, v)
                                 THEN "bad_request" ELSE "forbidden")]
    /\ UNCHANGED <<listings, exchanges, aged, avars>>

\* A sweep whose UPDATE has no test of completed_at.
MakeOldRatingsVisibleAnyAge(w) ==
    /\ wk[w].pc = "idle"
    /\ ratings' = [i \in RatingIds |-> [ratings[i] EXCEPT !.is_visible = TRUE]]
    /\ wk' = [wk EXCEPT ![w] =
                Ended([Started("show_old", 0, "none", NoEnt, "none") EXCEPT
                          !.n = Cardinality({i \in RatingIds :
                                               ~ratings[i].is_visible})], "ok")]
    /\ UNCHANGED <<listings, exchanges, users, aged, avars>>

\* A sweep that shows the ratings of every exchange but the oldest one.
MakeOldRatingsVisibleNewest(w) ==
    /\ wk[w].pc = "idle"
    /\ ratings' = Shown(ratings, ExchangeIds \ {1})
    /\ wk' = [wk EXCEPT ![w] =
                Ended([Started("show_old", 0, "none", NoEnt, "none") EXCEPT
                          !.n = Cardinality(Overdue)], "ok")]
    /\ UNCHANGED <<listings, exchanges, users, aged, avars>>

\* makeOldRatingsVisible called by the scheduled task: the one UPDATE, and
\* result.affected returned in n.
MakeOldRatingsVisible(w) ==
    /\ wk[w].pc = "idle"
    /\ ratings' = Shown(ratings, aged)
    /\ wk' = [wk EXCEPT ![w] =
                Ended([Started("show_old", 0, "none", NoEnt, "none") EXCEPT
                          !.n = Cardinality(Overdue)], "ok")]
    /\ UNCHANGED <<listings, exchanges, users, aged, avars>>

\* getRatingsForExchange: the ids of the rows found, returned in acts.
GetRatingsForExchange(w, e) ==
    /\ wk[w].pc = "idle"
    /\ e \in ExchangeIds
    /\ wk' = [wk EXCEPT ![w] =
                Ended([Started("ratings_of_exchange", e, "none", NoEnt, "none")
                         EXCEPT !.acts = {i \in RatingIds :
                                            /\ ratings[i].exchange_id = e
                                            /\ ratings[i].is_visible}], "ok")]
    /\ UNCHANGED <<listings, exchanges, rvars, avars>>

\* getRatingsForUser and getRatingStats: the ids of the rows the two find
\* with the same where clause, returned in acts.
GetRatingsForUser(w, u) ==
    /\ wk[w].pc = "idle"
    /\ wk' = [wk EXCEPT ![w] =
                Ended([Started("ratings_of_user", 0, u, NoEnt, "none")
                         EXCEPT !.acts = {i \in RatingIds :
                                            /\ ratings[i].rated_user_id = u
                                            /\ ratings[i].is_visible}], "ok")]
    /\ UNCHANGED <<listings, exchanges, rvars, avars>>

\* Time passes the visibility delay after the completed_at of exchange e.
TickCompleted(e) ==
    /\ e \in ExchangeIds
    /\ exchanges[e].completed_at # "null"
    /\ e \notin aged
    /\ aged' = aged \cup {e}
    /\ UNCHANGED <<listings, exchanges, wk, ratings, users, avars>>

----------------------------------------------------------------------------
(* OtpService, for one phone.                                              *)

\* OTP_MAX_ATTEMPTS when the configuration does not set it.
OtpMaxAttempts == 3

\* Bounds on the rows of the table and on the history counter.
MaxOtps == 2
MaxTries == 4

\* The codes generateOTPCode draws from, and the codes verifyOTP is called
\* with: "c0" is never generated.
Codes == {"c1", "c2"}
Guesses == Codes \cup {"c0"}

\* sendOTP when the cooldown has passed and a provider accepts the
\* message: the row saved with attempts 0 and verified false.
SendOTP(code) ==
    /\ Len(otps) < MaxOtps
    /\ otps' = Append(otps, [code |-> code, attempts |-> 0,
                             verified |-> FALSE, expired |-> FALSE])
    /\ tries' = 0
    /\ UNCHANGED <<mvars, payments, subscriptions, upgrades>>

\* findOne({phone, code, verified: false}, order created_at DESC): the id
\* of the newest row found, 0 when there is none.
FindOtp(code) ==
    LET hit == {i \in 1..Len(otps) : otps[i].code = code /\ ~otps[i].verified}
    IN IF hit = {} THEN 0 ELSE CHOOSE i \in hit : \A j \in hit : j <= i

\* verifyOTP: it throws when no row is found, when the row has expired and
\* when its attempts have reached maxAttempts; else it saves attempts + 1
\* and, the code of the row being the code it was found by, verified.
VerifyOTP(code) ==
    LET i == FindOtp(code) IN
    /\ i = 0 => tries < MaxTries
    /\ tries' = IF i = 0 THEN tries + 1 ELSE tries
    /\ otps' = IF i = 0 THEN otps
               ELSE IF otps[i].expired THEN otps
               ELSE IF otps[i].attempts >= OtpMaxAttempts THEN otps
               ELSE [otps EXCEPT ![i].attempts = @ + 1, ![i].verified = TRUE]
    /\ UNCHANGED <<mvars, payments, subscriptions, upgrades>>

\* Time passes the expires_at of row i.
ExpireOtp(i) ==
    /\ i \in 1..Len(otps)
    /\ ~otps[i].expired
    /\ otps' = [otps EXCEPT ![i].expired = TRUE]
    /\ UNCHANGED <<mvars, tries, payments, subscriptions, upgrades>>

NextOtp ==
    \/ \E c \in Codes : SendOTP(c)
    \/ \E c \in Guesses : VerifyOTP(c)
    \/ \E i \in 1..MaxOtps : ExpireOtp(i)

----------------------------------------------------------------------------
(* PaymentsService.                                                        *)

\* Bounds on the rows of the payments table and on the history of upgrades.
MaxPayments == 2
MaxUpgrades == 2

Purposes == {"subscription", "exchange"}

\* What Paystack answers to transaction.verify: the status of the
\* transaction, or no usable response.
PaystackAnswers == {"success", "failed", "error"}

\* initializePayment: the row saved with status pending and, when Paystack
\* does not initialize the transaction, saved again with status failed.
InitializePayment(u, purpose, initialized) ==
    /\ Len(payments) < MaxPayments
    /\ payments' = Append(payments,
                          [user_id |-> u, purpose |-> purpose,
                           status |-> IF initialized THEN "pending"
                                      ELSE "failed"])
    /\ UNCHANGED <<mvars, otps, tries, subscriptions, upgrades>>

\* verifyPayment(reference) when Paystack answers with answer: the status
\* it returns ("not_found" and "error" when it throws) and the payments
\* table it leaves.
VerifyPaymentResult(ref, answer) ==
    IF ref \notin 1..Len(payments)
    THEN [status |-> "not_found", payments |-> payments]
    ELSE IF payments[ref].status = "success"
    THEN [status |-> "success", payments |-> payments]
    ELSE IF answer = "error"
    THEN [status |-> "error", payments |-> payments]
    ELSE [status |-> answer,
          payments |-> [payments EXCEPT ![ref].status = answer]]

\* verifyPayment called by its own endpoint.
VerifyPayment(ref, answer) ==
    /\ payments' = VerifyPaymentResult(ref, answer).payments
    /\ UNCHANGED <<mvars, otps, tries, subscriptions, upgrades>>

\* handlePaystackWebhook with the event charge.success.
HandlePaystackWebhook(ref) ==
    /\ ref \in 1..Len(payments)
    /\ payments' = [payments EXCEPT ![ref].status = "success"]
    /\ UNCHANGED <<mvars, otps, tries, subscriptions, upgrades>>

\* upgradeSubscription(userId, {payment_reference, tier}): verifyPayment,
\* the test of its status and of the purpose, and the subscription saved.
UpgradeSubscription(u, ref, tier, answer) ==
    LET v == VerifyPaymentResult(ref, answer)
        upgraded == /\ v.status = "success"
                    /\ v.payments[ref].purpose = "subscription"
    IN /\ upgraded => Len(upgrades) < MaxUpgrades
       /\ payments' = v.payments
       /\ subscriptions' = IF upgraded
                           THEN [subscriptions EXCEPT ![u] = tier]
                           ELSE subscriptions
       /\ upgrades' = IF upgraded THEN Append(upgrades, <<u, ref>>)
                      ELSE upgrades
       /\ UNCHANGED <<mvars, otps, tries>>

NextPay ==
    \/ \E u \in Users, p \in Purposes, i \in BOOLEAN : InitializePayment(u, p, i)
    \/ \E r \in 1..MaxPayments, a \in PaystackAnswers : VerifyPayment(r, a)
    \/ \E r \in 1..MaxPayments : HandlePaystackWebhook(r)
    \/ \E u \in Users, r \in 1..MaxPayments + 1, a \in PaystackAnswers :
          UpgradeSubscription(u, r, "premium", a)

----------------------------------------------------------------------------

\* The response has been sent; the worker takes the next request.
Return(w) ==
    /\ wk[w].pc = "done"
    /\ wk' = [wk EXCEPT ![w] = IdleWorker]
    /\ UNCHANGED <<listings, exchanges, rvars, avars>>

----------------------------------------------------------------------------

Init ==
    /\ listings = [l \in Listings |->
                     [user_id |-> ListingOwner(l), status |-> "available",
                      expired |-> FALSE, interest_count |-> 0,
                      held_by |-> 0]]
    /\ exchanges = <<>>
    /\ wk = [w \in Workers |-> IdleWorker]
    /\ ratings = <<>>
    /\ users = [u \in Users |-> NoStats]
    /\ aged = {}
    /\ otps = <<>>
    /\ tries = 0
    /\ payments = <<>>
    /\ subscriptions = [u \in Users |-> "free"]
    /\ upgrades = <<>>

\* The requests createExchange is called with.
CreateInputs == Users \X Listings \X (Listings \cup {NoListing})

\* The steps of worker w, with at most max exchanges ever created.
Step(w, max) ==
    \/ /\ Len(exchanges) + Cardinality(Creating) < max
       /\ \E in \in CreateInputs : CreateExchangeBegin(w, in[1], in[2], in[3])
    \/ CreateExchangeOffered(w)
    \/ CreateExchangeInterest(w)
    \/ CreateExchangeInsert(w)
    \/ \E e \in ExchangeIds, u \in Users : AcceptExchangeBegin(w, e, u)
    \/ \E e \in ExchangeIds, u \in Users : DeclineExchangeBegin(w, e, u)
    \/ \E e \in ExchangeIds, u \in Users : CancelExchangeBegin(w, e, u)
    \/ \E e \in ExchangeIds, u \in Users : ConfirmCompletionBegin(w, e, u)
    \/ SaveLoad(w)
    \/ SaveWrite(w)
    \/ MarkAsReservedCheck(w)
    \/ MarkAsReservedUpdate(w)
    \/ MarkAsExchangedCheck(w)
    \/ MarkAsExchangedUpdate(w)
    \/ \E l \in Listings, u \in Users : ListingCancelBegin(w, l, u)
    \/ ListingCancelUpdate(w)
    \/ \E l \in Listings, u \in Users : ReactivateBegin(w, l, u)
    \/ ReactivateUpdate(w)
    \/ Return(w)

\* Concurrent requests on one exchange.
Next == \E w \in Workers : Step(w, MaxRaceExchanges)

Spec == Init /\ [][Next]_vars

\* One request at a time, with the expiry sweep and the passing of time.
NextSeq ==
    \/ Step("w1", MaxExchanges)
    \/ ExpireOldListings
    \/ \E l \in Listings : Tick(l)

SpecSeq == Init /\ [][NextSeq]_vars

\* Concurrent createExchange and acceptExchange requests on two exchanges.
AcceptStep(w) ==
    \/ /\ Len(exchanges) + Cardinality(Creating) < MaxExchanges
       /\ \E in \in CreateInputs : CreateExchangeBegin(w, in[1], in[2], in[3])
    \/ CreateExchangeOffered(w)
    \/ CreateExchangeInterest(w)
    \/ CreateExchangeInsert(w)
    \/ \E e \in ExchangeIds, u \in Users : AcceptExchangeBegin(w, e, u)
    \/ SaveLoad(w)
    \/ SaveWrite(w)
    \/ MarkAsReservedCheck(w)
    \/ MarkAsReservedUpdate(w)
    \/ Return(w)

NextAccept == \E w \in Workers : AcceptStep(w)

SpecAccept == Init /\ [][NextAccept]_vars

\* Every operation of the exchange and listing services, one request at a
\* time, called by the two listing owners and, on an exchange, by an
\* outsider too.
OpsStep(w) ==
    \/ /\ Len(exchanges) + Cardinality(Creating) < MaxOpsExchanges
       /\ \E in \in CreateInputs : CreateExchangeBegin(w, in[1], in[2], in[3])
    \/ CreateExchangeOffered(w)
    \/ CreateExchangeInterest(w)
    \/ CreateExchangeInsert(w)
    \/ \E e \in ExchangeIds, u \in Callers : AcceptExchangeBegin(w, e, u)
    \/ \E e \in ExchangeIds, u \in Callers : DeclineExchangeBegin(w, e, u)
    \/ \E e \in ExchangeIds, u \in Callers : CancelExchangeBegin(w, e, u)
    \/ \E e \in ExchangeIds, u \in Callers : SetMeetupDetailsBegin(w, e, u)
    \/ \E e \in ExchangeIds, u \in Callers : ConfirmMeetupBegin(w, e, u)
    \/ \E e \in ExchangeIds, u \in Callers : ConfirmCompletionBegin(w, e, u)
    \/ \E e \in ExchangeIds, u \in Callers : GetAvailableActions(w, e, u)
    \/ SaveLoad(w)
    \/ SaveWrite(w)
    \/ MarkAsReservedCheck(w)
    \/ MarkAsReservedUpdate(w)
    \/ MarkAsExchangedCheck(w)
    \/ MarkAsExchangedUpdate(w)
    \/ \E l \in Listings, u \in Users : ListingCancelBegin(w, l, u)
    \/ ListingCancelUpdate(w)
    \/ \E l \in Listings, u \in Users : ReactivateBegin(w, l, u)
    \/ ReactivateUpdate(w)
    \/ Return(w)

NextOps == OpsStep("w1")

SpecOps == Init /\ [][NextOps]_vars

\* The exchange and listing operations of the two owners, one request at a
\* time, with the scheduled sweep and the passing of time.
NextSweep ==
    \/ Step("w1", MaxOpsExchanges)
    \/ ExpireOldListingsCall("w1")
    \/ \E l \in Listings : Tick(l)

SpecSweep == Init /\ [][NextSweep]_vars

\* Concurrent acceptExchange, declineExchange and setMeetupDetails requests
\* of the two parties on one exchange.
MeetupStep(w) ==
    \/ /\ Len(exchanges) + Cardinality(Creating) < MaxRaceExchanges
       /\ \E in \in CreateInputs : CreateExchangeBegin(w, in[1], in[2], in[3])
    \/ CreateExchangeOffered(w)
    \/ CreateExchangeInterest(w)
    \/ CreateExchangeInsert(w)
    \/ \E e \in ExchangeIds, u \in Users : AcceptExchangeBegin(w, e, u)
    \/ \E e \in ExchangeIds, u \in Users : DeclineExchangeBegin(w, e, u)
    \/ \E e \in ExchangeIds, u \in Users : SetMeetupDetailsBegin(w, e, u)
    \/ SaveLoad(w)
    \/ SaveWrite(w)
    \/ MarkAsReservedCheck(w)
    \/ MarkAsReservedUpdate(w)
    \/ Return(w)

NextMeetup == \E w \in Workers : MeetupStep(w)

SpecMeetup == Init /\ [][NextMeetup]_vars

\* Bound on the number of exchanges in the specification of the ratings,
\* and the rating values createRating is called with (0 is out of range).
MaxRatedExchanges == 1
RatingValues == {0, 4}

\* Concurrent requests of the two parties and an outsider on one exchange:
\* the calls that take it to completed or cancelled, and the ratings, with
\* the scheduled visibility sweep.
RatingStep(w) ==
    \/ /\ Len(exchanges) + Cardinality(Creating) < MaxRatedExchanges
       /\ \E u \in Users : CreateExchangeBegin(w, u, "L1", NoListing)
    \/ CreateExchangeInterest(w)
    \/ CreateExchangeInsert(w)
    \/ \E e \in ExchangeIds : AcceptExchangeBegin(w, e, exchanges[e].owner_id)
    \/ \E e \in ExchangeIds, u \in Users : CancelExchangeBegin(w, e, u)
    \/ \E e \in ExchangeIds, u \in Users : ConfirmCompletionBegin(w, e, u)
    \/ SaveLoad(w)
    \/ SaveWrite(w)
    \/ MarkAsReservedCheck(w)
    \/ MarkAsReservedUpdate(w)
    \/ MarkAsExchangedCheck(w)
    \/ MarkAsExchangedUpdate(w)
    \/ \E e \in ExchangeIds, u \in Callers, v \in RatingValues :
          CreateRatingBegin(w, e, u, v)
    \/ CreateRatingExisting(w)
    \/ CreateRatingOther(w)
    \/ CreateRatingInsert(w)
    \/ CreateRatingFlip(w)
    \/ UpdateExchangeStatisticsRead(w)
    \/ UpdateExchangeStatisticsWrite(w)
    \/ MakeOldRatingsVisible(w)
    \/ \E e \in ExchangeIds : GetRatingsForExchange(w, e)
    \/ \E u \in Users : GetRatingsForUser(w, u)
    \/ Return(w)

NextRating ==
    \/ \E w \in Workers : RatingStep(w)
    \/ \E e \in ExchangeIds : TickCompleted(e)

SpecRating == Init /\ [][NextRating]_vars

\* The same requests, one at a time.
NextRatingSeq ==
    \/ RatingStep("w1")
    \/ \E e \in ExchangeIds : TickCompleted(e)

SpecRatingSeq == Init /\ [][NextRatingSeq]_vars

\* The requests on one exchange and its ratings, one at a time, with a
\* statistics update that can fail.
NextStatsFail ==
    \/ RatingStep("w1")
    \/ UpdateExchangeStatisticsThrows("w1")

SpecStatsFail == Init /\ [][NextStatsFail]_vars

\* The calls of OtpService, and the passing of time.
SpecOtp == Init /\ [][NextOtp]_vars

\* The calls of PaymentsService.
SpecPay == Init /\ [][NextPay]_vars

\* Bound on the number of exchanges in the specification of completion.
MaxLiveExchanges == 2

\* The steps a handler takes once it has begun, and the response.
Proceeds(w) ==
    \/ CreateExchangeInterest(w)
    \/ CreateExchangeInsert(w)
    \/ SaveLoad(w)
    \/ SaveWrite(w)
    \/ MarkAsReservedCheck(w)
    \/ MarkAsReservedUpdate(w)
    \/ MarkAsExchangedCheck(w)
    \/ MarkAsExchangedUpdate(w)
    \/ ListingCancelUpdate(w)
    \/ ReactivateUpdate(w)
    \/ Return(w)

\* Requests served one at a time: exchanges are created and accepted, their
\* parties confirm completion, the listing owners cancel and reactivate
\* their listings; nobody cancels or declines an exchange.
NextLive ==
    \/ /\ Len(exchanges) + Cardinality(Creating) < MaxLiveExchanges
       /\ \E u \in Users, l \in Listings :
             CreateExchangeBegin("w1", u, l, NoListing)
    \/ \E e \in ExchangeIds :
          AcceptExchangeBegin("w1", e, exchanges[e].owner_id)
    \/ \E e \in ExchangeIds, u \in Users : ConfirmCompletionBegin("w1", e, u)
    \/ \E l \in Listings : ListingCancelBegin("w1", l, ListingOwner(l))
    \/ \E l \in Listings : ReactivateBegin("w1", l, ListingOwner(l))
    \/ Proceeds("w1")

\* Every handler runs to its end, and each user calls confirmCompletion on
\* each exchange again and again.
SpecLive ==
    /\ Init
    /\ [][NextLive]_vars
    /\ WF_vars(Proceeds("w1"))
    /\ \A e \in 1..MaxLiveExchanges, u \in Users :
          SF_vars(ConfirmCompletionBegin("w1", e, u))

\* Bound on the number of exchanges in the specification of the sweep.
MaxShownExchanges == 2

\* Two exchanges taken to completed and rated, one request at a time,
\* with the scheduled visibility sweep and the passing of time.
NextShown ==
    \/ /\ Len(exchanges) + Cardinality(Creating) < MaxShownExchanges
       /\ \E u \in Users, l \in Listings :
             CreateExchangeBegin("w1", u, l, NoListing)
    \/ CreateExchangeInterest("w1")
    \/ CreateExchangeInsert("w1")
    \/ \E e \in ExchangeIds :
          AcceptExchangeBegin("w1", e, exchanges[e].owner_id)
    \/ \E e \in ExchangeIds, u \in Users : ConfirmCompletionBegin("w1", e, u)
    \/ SaveLoad("w1")
    \/ SaveWrite("w1")
    \/ MarkAsReservedCheck("w1")
    \/ MarkAsReservedUpdate("w1")
    \/ MarkAsExchangedCheck("w1")
    \/ MarkAsExchangedUpdate("w1")
    \/ \E e \in ExchangeIds, u \in Callers, v \in RatingValues :
          CreateRatingCall("w1", e, u, v)
    \/ MakeOldRatingsVisible("w1")
    \/ Return("w1")
    \/ \E e \in ExchangeIds : TickCompleted(e)

SpecShown == Init /\ [][NextShown]_vars

\* Bound on the number of exchanges in the specification of the statistics,
\* and the raters and rating values createRating is called with there.
MaxStatsExchanges == 2
StatsInputs == {<<"A", 2>>, <<"A", 5>>, <<"B", 5>>}

\* createRating, step by step.
RateStep(w, inputs) ==
    \/ \E e \in ExchangeIds, in \in inputs :
          CreateRatingBegin(w, e, in[1], in[2])
    \/ CreateRatingExisting(w)
    \/ CreateRatingOther(w)
    \/ CreateRatingInsert(w)
    \/ CreateRatingFlip(w)
    \/ UpdateExchangeStatisticsRead(w)
    \/ UpdateExchangeStatisticsWrite(w)
    \/ Return(w)

\* Two exchanges taken to completed one request at a time, and concurrent
\* createRating requests of their parties.
NextStats ==
    \/ /\ Len(exchanges) + Cardinality(Creating) < MaxStatsExchanges
       /\ \E u \in Users, l \in Listings :
             CreateExchangeBegin("w1", u, l, NoListing)
    \/ CreateExchangeInterest("w1")
    \/ CreateExchangeInsert("w1")
    \/ \E e \in ExchangeIds :
          AcceptExchangeBegin("w1", e, exchanges[e].owner_id)
    \/ \E e \in ExchangeIds, u \in Users : ConfirmCompletionBegin("w1", e, u)
    \/ SaveLoad("w1")
    \/ SaveWrite("w1")
    \/ MarkAsReservedCheck("w1")
    \/ MarkAsReservedUpdate("w1")
    \/ MarkAsExchangedCheck("w1")
    \/ MarkAsExchangedUpdate("w1")
    \/ \E w \in Workers : RateStep(w, StatsInputs)

SpecStats == Init /\ [][NextStats]_vars

----------------------------------------------------------------------------
(* Properties.                                                             *)

\* Every row and every worker has the shape the entities declare.
TypeOK ==
    /\ \A l \in Listings : listings[l].status \in ListingStatuses
    /\ \A e \in ExchangeIds : exchanges[e].status \in ExchangeStatuses
    /\ Len(exchanges) <= MaxExchanges

\* No request is in flight.
Quiescent == \A w \in Workers : wk[w].pc \in {"idle", "done"}

\* The exchanges with status accepted that reference listing l.
Holders(l) ==
    {e \in ExchangeIds :
        /\ exchanges[e].status = "accepted"
        /\ l \in {exchanges[e].listing_id, exchanges[e].offered_listing_id}}

\* The listings of exchange e.
ListingsOf(e) ==
    {exchanges[e].listing_id, exchanges[e].offered_listing_id} \ {NoListing}

\* cancelExchange never reaches the branch that releases the listings: no
\* worker is ever at its first step.
CancelReleaseUnreachable == \A w \in Workers : wk[w].pc # "rel_find"

\* C1: single reservation.  Whenever no request is in flight, every listing
\* is referenced (as requested or offered listing) by at most one exchange
\* with status accepted.
C1_SingleReservation ==
    Quiescent => \A l \in Listings : Cardinality(Holders(l)) <= 1

\* C2: rollback atomicity of accept.  An acceptExchange by the owner that
\* read the exchange as pending and failed because the requested listing
\* was not available leaves the persisted status pending.
C2_AcceptRollback ==
    \A w \in Workers :
        (/\ wk[w].pc = "done"
         /\ wk[w].op = "accept"
         /\ wk[w].rd = "pending"
         /\ wk[w].res = "listing_not_available"
         /\ wk[w].lid = exchanges[wk[w].ex].listing_id)
        => exchanges[wk[w].ex].status = "pending"

\* C3: accept is atomic to observers.  Whenever no request is in flight, an
\* accepted exchange has all its listings reserved; and an acceptExchange
\* that failed on the offered listing has left the exchange pending and the
\* requested listing available, as it was before the call.
C3_AcceptAtomic ==
    /\ Quiescent =>
          \A e \in ExchangeIds :
              exchanges[e].status = "accepted"
              => \A l \in ListingsOf(e) : listings[l].status = "reserved"
    /\ \A w \in Workers :
          (/\ wk[w].pc = "done"
           /\ wk[w].op = "accept"
           /\ wk[w].rd = "pending"
           /\ wk[w].res = "listing_not_available"
           /\ wk[w].lid = exchanges[wk[w].ex].offered_listing_id)
          => /\ exchanges[wk[w].ex].status = "pending"
             /\ listings[exchanges[wk[w].ex].listing_id].status = "available"

\* An acceptExchange by the exchange's owner that has returned or thrown.
AcceptDone(w) ==
    /\ wk[w].pc = "done"
    /\ wk[w].op = "accept"
    /\ wk[w].user = exchanges[wk[w].ex].owner_id

\* C4: of two acceptExchange calls by the owner that both read the same
\* exchange while it was pending, exactly one returns success and the
\* other fails with the state machine's invalid-transition error.
C4_OneAcceptWins ==
    \A w1, w2 \in Workers :
        (/\ w1 # w2
         /\ AcceptDone(w1) /\ AcceptDone(w2)
         /\ wk[w1].ex = wk[w2].ex
         /\ wk[w1].rd = "pending" /\ wk[w2].rd = "pending")
        => {wk[w1].res, wk[w2].res} = {"ok", "invalid_transition"}

\* C5: two acceptExchange calls for two different exchanges that request
\* the same listing never both return success.  (Under SpecAccept a
\* reserved listing is never released, so two such successes can only stem
\* from both calls reserving the listing.)
C5_OneClaimWins ==
    \A w1, w2 \in Workers :
        (/\ w1 # w2
         /\ AcceptDone(w1) /\ AcceptDone(w2)
         /\ wk[w1].ex # wk[w2].ex
         /\ exchanges[wk[w1].ex].listing_id = exchanges[wk[w2].ex].listing_id)
        => ~(wk[w1].res = "ok" /\ wk[w2].res = "ok")

\* The step in which worker w's cancelExchange of an exchange it read as
\* accepted returns success.
CancelAcceptedReturns(w) ==
    /\ wk[w].op = "cancel"
    /\ wk[w].rd = "accepted"
    /\ wk[w].pc # "done"
    /\ wk'[w].pc = "done"
    /\ wk'[w].res = "ok"

\* The status release gives a listing: back to available, or expired when
\* its expires_at has passed; a listing that is not reserved is left alone.
Released(l) ==
    IF listings[l].status # "reserved" THEN listings[l].status
    ELSE IF listings[l].expired THEN "expired" ELSE "available"

\* C6: a successful cancelExchange of an accepted exchange whose requested
\* listing is reserved leaves the exchange cancelled and that listing
\* available, or expired when its expires_at has passed.
C6_CancelReleases ==
    [][\A w \in Workers :
          (/\ CancelAcceptedReturns(w)
           /\ listings[exchanges[wk[w].ex].listing_id].status = "reserved")
          => /\ exchanges'[wk[w].ex].status = "cancelled"
             /\ listings'[exchanges[wk[w].ex].listing_id].status
                  = Released(exchanges[wk[w].ex].listing_id)]_vars

\* C7: a successful cancelExchange of an accepted exchange with an offered
\* listing leaves the exchange cancelled, releases each of its two listings
\* that is reserved, and leaves the other one's status unchanged.
C7_CancelReleasesBoth ==
    [][\A w \in Workers :
          (/\ CancelAcceptedReturns(w)
           /\ exchanges[wk[w].ex].offered_listing_id # NoListing)
          => /\ exchanges'[wk[w].ex].status = "cancelled"
             /\ \A l \in ListingsOf(wk[w].ex) :
                   listings'[l].status = Released(l)]_vars

\* C8: dual confirmation.  A persisted exchange has status completed only
\* if both completion flags are true.
C8_DualConfirmation ==
    \A e \in ExchangeIds :
        exchanges[e].status = "completed"
        => /\ exchanges[e].requester_confirmed_completion
           /\ exchanges[e].owner_confirmed_completion

\* C9: no persisted exchange has both completion flags true while its
\* status is still accepted.
C9_NoConfirmedButAccepted ==
    \A e \in ExchangeIds :
        ~(/\ exchanges[e].status = "accepted"
          /\ exchanges[e].requester_confirmed_completion
          /\ exchanges[e].owner_confirmed_completion)

\* C10: completion settles the listings.  When the save of a
\* confirmCompletion moves the persisted status from accepted to completed,
\* in the resulting state completed_at is set and every listing of the
\* exchange has status exchanged.
C10_CompletionSettles ==
    [][\A w \in Workers :
          (/\ wk[w].op = "confirm_completion"
           /\ wk[w].pc = "save_write"
           /\ exchanges[wk[w].ex].status = "accepted"
           /\ exchanges'[wk[w].ex].status = "completed")
          => /\ exchanges'[wk[w].ex].completed_at = "date"
             /\ \A l \in ListingsOf(wk[w].ex) :
                   listings'[l].status = "exchanged"]_vars

\* C11: confirmCompletion is all-or-nothing.  When the completing
\* confirmCompletion call fails in markAsExchanged, with no other request
\* running meanwhile, the exchange still has the status the call read, and
\* when the failure is on the offered listing, the requested listing, which
\* the call found reserved, is reserved as before: no listing is exchanged
\* while the exchange is not completed.
C11_CompletionAllOrNothing ==
    \A w \in Workers :
        (/\ wk[w].pc = "done"
         /\ wk[w].op = "confirm_completion"
         /\ wk[w].res = "listing_not_reserved")
        => /\ exchanges[wk[w].ex].status = wk[w].rd
           /\ wk[w].lid = exchanges[wk[w].ex].offered_listing_id
              => listings[exchanges[wk[w].ex].listing_id].status = "reserved"

\* C12: monotonic status.  Every step that changes the persisted status of
\* an exchange changes it along the transition table: pending to accepted,
\* declined or cancelled, accepted to completed or cancelled, and nothing
\* out of declined, completed or cancelled.
C12_MonotonicStatus ==
    [][\A e \in ExchangeIds :
          exchanges'[e].status # exchanges[e].status
          => IsValidTransition(exchanges[e].status, exchanges'[e].status)]_vars

\* The (operation, status) pairs outside the transition table.
OutsideTable(op, status) ==
    \/ /\ IsTerminal(status)
       /\ op \in {"accept", "decline", "cancel", "set_meetup",
                  "confirm_meetup", "confirm_completion"}
    \/ status = "accepted" /\ op \in {"accept", "decline"}
    \/ status = "pending" /\ op \in {"confirm_meetup", "confirm_completion"}

\* Worker w takes up a request on an exchange in this step.
TakesUp(w) ==
    /\ wk[w].pc = "idle"
    /\ wk'[w].pc # "idle"
    /\ wk'[w].ex \in ExchangeIds

\* C13: a request whose operation is outside the transition table for the
\* exchange's status (any operation on a declined, completed or cancelled
\* exchange, accept or decline on an accepted one, confirmMeetup or
\* confirmCompletion on a pending one) ends at once with an error and
\* leaves every exchange and every listing unchanged.
C13_OutsideTableRejected ==
    [][\A w \in Workers :
          (/\ TakesUp(w)
           /\ OutsideTable(wk'[w].op, exchanges[wk'[w].ex].status))
          => /\ wk'[w].pc = "done"
             /\ wk'[w].res \notin {"ok", "none"}
             /\ exchanges' = exchanges
             /\ listings' = listings]_vars

\* A party's cancelExchange of a completed exchange has been rejected by
\* the state machine.
C13_Witness ==
    \E w \in Workers :
        /\ wk[w].pc = "done"
        /\ wk[w].op = "cancel"
        /\ wk[w].rd = "completed"
        /\ wk[w].user \in Users
        /\ wk[w].res = "invalid_transition"

\* The caller lacks the role the operation requires on exchange e.
Unauthorized(op, e, u) ==
    \/ op \in {"accept", "decline"} /\ u # exchanges[e].owner_id
    \/ /\ op \in {"cancel", "set_meetup", "confirm_meetup",
                   "confirm_completion"}
       /\ u \notin {exchanges[e].requester_id, exchanges[e].owner_id}

\* C14: role authorization.  acceptExchange or declineExchange by anyone
\* but the owner, and cancelExchange, setMeetupDetails, confirmMeetup or
\* confirmCompletion by anyone but the requester and the owner, end at once
\* with the authorization error, whatever the status of the exchange, and
\* leave every exchange and every listing unchanged.
C14_RoleAuthorization ==
    [][\A w \in Workers :
          (/\ TakesUp(w)
           /\ Unauthorized(wk'[w].op, wk'[w].ex, wk'[w].user))
          => /\ wk'[w].pc = "done"
             /\ wk'[w].res = "forbidden"
             /\ exchanges' = exchanges
             /\ listings' = listings]_vars

\* The outsider's cancelExchange of an accepted exchange has been refused.
C14_Witness ==
    \E w \in Workers :
        /\ wk[w].pc = "done"
        /\ wk[w].op = "cancel"
        /\ wk[w].user = Outsider
        /\ wk[w].rd = "accepted"
        /\ wk[w].res = "forbidden"

\* User u is a party to the exchange row ent.
IsParty(ent, u) == u \in {ent.requester_id, ent.owner_id}

\* The meetup flag and the completion flag of party u in the row ent.
MeetupFlag(ent, u) ==
    IF u = ent.requester_id THEN ent.requester_confirmed_meetup
    ELSE ent.owner_confirmed_meetup

CompletionFlag(ent, u) ==
    IF u = ent.requester_id THEN ent.requester_confirmed_completion
    ELSE ent.owner_confirmed_completion

\* The call op by u repeats a confirmation u has already given on the
\* accepted exchange row ent (for confirmCompletion: while the other party
\* has not confirmed).
Repeats(op, ent, u) ==
    /\ ent.status = "accepted"
    /\ IsParty(ent, u)
    /\ \/ op = "confirm_meetup" /\ MeetupFlag(ent, u)
       \/ /\ op = "confirm_completion"
          /\ CompletionFlag(ent, u)
          /\ ~(ent.requester_confirmed_completion
                /\ ent.owner_confirmed_completion)

\* The step in which the save of worker w's handler writes and returns.
SaveReturns(w) == wk[w].pc = "save_write" /\ wk'[w].pc # "save_write"

\* C15: per-actor idempotence of confirmations, one request at a time.  A
\* confirmMeetup or confirmCompletion that repeats the caller's earlier
\* confirmation is not rejected: it goes on to its save with an entity
\* equal to the stored row, and its save leaves every exchange and listing
\* as it was and returns success.
C15_ConfirmIdempotent ==
    [][\A w \in Workers :
          /\ (/\ TakesUp(w)
              /\ Repeats(wk'[w].op, exchanges[wk'[w].ex], wk'[w].user))
             => /\ wk'[w].pc = "save_load"
                /\ wk'[w].ent = exchanges[wk'[w].ex]
          /\ (/\ SaveReturns(w)
              /\ Repeats(wk[w].op, exchanges[wk[w].ex], wk[w].user))
             => /\ exchanges' = exchanges
                /\ listings' = listings
                /\ wk'[w].pc = "done"
                /\ wk'[w].res = "ok"]_vars

\* A repeated confirmMeetup has passed its checks and is at its save, with
\* nothing to write.
C15_Witness ==
    \E w \in Workers :
        /\ wk[w].pc = "save_write"
        /\ wk[w].op = "confirm_meetup"
        /\ Repeats("confirm_meetup", exchanges[wk[w].ex], wk[w].user)
        /\ wk[w].diff = {}

\* The row ent with the meetup flag of party u set.
WithMeetupFlag(ent, u) ==
    IF u = ent.requester_id
    THEN [ent EXCEPT !.requester_confirmed_meetup = TRUE]
    ELSE [ent EXCEPT !.owner_confirmed_meetup = TRUE]

\* C16: on every accepted exchange a confirmMeetup by the requester or the
\* owner is not rejected (status accepted and being a party are its only
\* preconditions), and its save returns success having set only the
\* caller's meetup flag, with the status still accepted and every listing
\* unchanged.
C16_ConfirmMeetupSucceeds ==
    [][\A w \in Workers :
          /\ (/\ TakesUp(w)
              /\ wk'[w].op = "confirm_meetup"
              /\ exchanges[wk'[w].ex].status = "accepted"
              /\ IsParty(exchanges[wk'[w].ex], wk'[w].user))
             => wk'[w].pc = "save_load"
          /\ (/\ SaveReturns(w)
              /\ wk[w].op = "confirm_meetup")
             => /\ exchanges'[wk[w].ex]
                     = WithMeetupFlag(exchanges[wk[w].ex], wk[w].user)
                /\ exchanges'[wk[w].ex].status = "accepted"
                /\ listings' = listings
                /\ wk'[w].res = "ok"]_vars

\* The action names of the available-actions query.
ActionNames ==
    {"accept", "decline", "cancel", "confirm_meetup", "confirm_completion"}

\* The listings of the row ent all have the given status.
ListingsAre(ent, status) ==
    \A l \in {ent.listing_id, ent.offered_listing_id} \ {NoListing} :
        listings[l].status = status

\* The operation named a, called now by u on exchange e with no other
\* request running, returns success: the caller's role, the status test or
\* state machine, confirmMeetup's test of the meetup details, and the
\* listing tests of markAsReserved and markAsExchanged all pass.
WouldSucceed(a, e, u) ==
    LET ent == exchanges[e]
    IN CASE a = "accept" ->
              /\ u = ent.owner_id
              /\ SMAccept(ent).ok
              /\ ListingsAre(ent, "available")
         [] a = "decline" -> u = ent.owner_id /\ SMDecline(ent).ok
         [] a = "cancel" -> IsParty(ent, u) /\ SMCancel(ent).ok
         [] a = "confirm_meetup" ->
              /\ IsParty(ent, u)
              /\ ent.status = "accepted"
              /\ ent.meetup # "null"
         [] a = "confirm_completion" ->
              /\ IsParty(ent, u)
              /\ ent.status = "accepted"
              /\ ConfirmCompletionEntity(ent, u).ok
              /\ ConfirmCompletionEntity(ent, u).ent.status = "completed"
                 => ListingsAre(ent, "reserved")

\* C17: the available-actions query reflects the transition table.  The
\* set getAvailableActions returns for user u on exchange e contains an
\* action name exactly when that operation, called by u on e in the state
\* the query read, would succeed.
C17_ActionsReflectTable ==
    [][\A w \in Workers :
          (TakesUp(w) /\ wk'[w].op = "actions")
          => \A a \in ActionNames :
                a \in wk'[w].acts
                <=> WouldSucceed(a, wk'[w].ex, wk'[w].user)]_vars

\* The steps of worker w's createExchange: a requested listing that is not
\* available or is the requester's own ends the call with a bad request;
\* an offered listing that is not the requester's ends it with the error
\* notOwned, and one that is not available with a bad request; a failing
\* call creates no exchange, and a call that passes every test goes on to
\* insert one exchange, with status pending, and returns success.
CreateChecks(w, notOwned) ==
    /\ (wk[w].pc = "idle" /\ wk'[w].op = "create")
       => /\ exchanges' = exchanges
          /\ IF \/ listings[wk'[w].lid].status # "available"
                \/ listings[wk'[w].lid].user_id = wk'[w].user
             THEN wk'[w].pc = "done" /\ wk'[w].res = "bad_request"
             ELSE wk'[w].pc \in {"cr_offered", "cr_incr"}
    /\ (wk[w].pc = "cr_offered" /\ wk'[w].pc # "cr_offered")
       => LET o == wk[w].ent.offered_listing_id
          IN /\ exchanges' = exchanges
             /\ IF listings[o].user_id # wk[w].user
                THEN wk'[w].pc = "done" /\ wk'[w].res = notOwned
                ELSE IF listings[o].status # "available"
                THEN wk'[w].pc = "done" /\ wk'[w].res = "bad_request"
                ELSE wk'[w].pc = "cr_incr"
    /\ (wk[w].pc = "cr_incr" /\ wk'[w].pc # "cr_incr")
       => wk'[w].pc = "cr_insert" /\ exchanges' = exchanges
    /\ (wk[w].pc = "cr_insert" /\ wk'[w].pc # "cr_insert")
       => /\ wk'[w].pc = "done" /\ wk'[w].res = "ok"
          /\ Len(exchanges') = Len(exchanges) + 1
          /\ SubSeq(exchanges', 1, Len(exchanges)) = exchanges
          /\ exchanges'[Len(exchanges')].status = "pending"

\* C18, as claimed: createExchange fails with a bad-request error and
\* creates no exchange whenever the requested listing is not available or
\* is owned by the requester, or the offered listing is not owned by the
\* requester or is not available; otherwise it creates an exchange with
\* status pending.
C18_CreateRejectsBadRequest ==
    [][\A w \in Workers : CreateChecks(w, "bad_request")]_vars

\* C18, amended: as above, except that an offered listing that is not
\* owned by the requester fails the call with the authorization
\* (forbidden) error, tested before the offered listing's availability.
C18_CreateRejects ==
    [][\A w \in Workers : CreateChecks(w, "forbidden")]_vars

\* A createExchange offering a listing the requester does not own has been
\* refused, and no exchange exists.
C18_Witness ==
    \E w \in Workers :
        /\ wk[w].pc = "done"
        /\ wk[w].op = "create"
        /\ wk[w].res = "forbidden"
        /\ exchanges = <<>>

\* The listing row with its interest counter left out.
SansInterest(row) == [row EXCEPT !.interest_count = 0]

Parties(row) ==
    <<row.requester_id, row.owner_id, row.listing_id, row.offered_listing_id>>

\* C20: in every reachable state every exchange has a requester different
\* from its owner, its owner is the owner of its requested listing, and
\* its offered listing, when present, is owned by its requester; and no
\* step changes the requester, owner, requested or offered listing of an
\* existing exchange.
C20_PartiesFixed ==
    /\ [](\A e \in ExchangeIds :
             /\ exchanges[e].requester_id # exchanges[e].owner_id
             /\ exchanges[e].owner_id
                  = listings[exchanges[e].listing_id].user_id
             /\ exchanges[e].offered_listing_id # NoListing
                => listings[exchanges[e].offered_listing_id].user_id
                     = exchanges[e].requester_id)
    /\ [][\A e \in ExchangeIds :
             Parties(exchanges'[e]) = Parties(exchanges[e])]_vars

\* An exchange with an offered listing has gone through accept and both
\* completion confirmations.
C20_Witness ==
    \E e \in ExchangeIds :
        /\ exchanges[e].offered_listing_id # NoListing
        /\ exchanges[e].status = "completed"

\* C21: meetup data is written only while the status is accepted.  In
\* every reachable state an exchange that is pending or declined has no
\* meetup data, and a setMeetupDetails that read a status other than
\* accepted has failed at once, without reaching its save.
C21_MeetupOnlyAccepted ==
    /\ \A e \in ExchangeIds :
          exchanges[e].status \in {"pending", "declined"}
          => exchanges[e].meetup = "null"
    /\ \A w \in Workers :
          (wk[w].op = "set_meetup" /\ wk[w].rd # "accepted")
          => wk[w].pc = "done" /\ wk[w].res \in {"forbidden", "bad_request"}

\* C22: completed_at is set exactly once.  In every reachable state
\* completed_at is set if and only if the status is completed; and every
\* step that changes completed_at sets it, in the step that moves the
\* status from accepted to completed.
C22_CompletedAtOnce ==
    /\ [](\A e \in ExchangeIds :
             exchanges[e].completed_at # "null"
             <=> exchanges[e].status = "completed")
    /\ [][\A e \in ExchangeIds :
             exchanges'[e].completed_at # exchanges[e].completed_at
             => /\ exchanges[e].completed_at = "null"
                /\ exchanges[e].status = "accepted"
                /\ exchanges'[e].status = "completed"]_vars

\* C23: listing status transitions respect their source states.  Every
\* step that changes a listing's status to reserved starts from available,
\* every step that changes it to exchanged starts from reserved, and no
\* step changes the status of an exchanged listing.
C23_ListingTransitions ==
    [][\A l \in Listings :
          listings'[l].status # listings[l].status
          => /\ listings'[l].status = "reserved"
                => listings[l].status = "available"
             /\ listings'[l].status = "exchanged"
                => listings[l].status = "reserved"
             /\ listings[l].status # "exchanged"]_vars

\* C24: a reserved listing is settled or released only by the exchange
\* that reserved it.  Every step that moves a listing from reserved to
\* exchanged or to available is a step of the confirmCompletion or
\* cancelExchange of the exchange whose accept put it into reserved.
C24_SettledByHolder ==
    [][\A l \in Listings :
          (/\ listings[l].status = "reserved"
           /\ listings'[l].status \in {"exchanged", "available"})
          => \E w \in Workers :
                /\ wk'[w] # wk[w]
                /\ wk[w].lid = l
                /\ wk[w].op \in {"confirm_completion", "cancel"}
                /\ wk[w].ex = listings[l].held_by]_vars

\* C25: while an accepted exchange holds a listing, the listing leaves
\* reserved only through that exchange.  Every step that changes the status
\* of a listing that is reserved for an exchange with status accepted is a
\* step of that exchange's cancelExchange or confirmCompletion.
C25_ReservedOnlyByExchange ==
    [][\A l \in Listings :
          (/\ listings[l].status = "reserved"
           /\ listings[l].held_by \in ExchangeIds
           /\ exchanges[listings[l].held_by].status = "accepted"
           /\ listings'[l].status # "reserved")
          => \E w \in Workers :
                /\ wk'[w] # wk[w]
                /\ wk[w].op \in {"confirm_completion", "cancel"}
                /\ wk[w].ex = listings[l].held_by]_vars

\* The listings the sweep is due to expire: available, expires_at passed.
Due == {l \in Listings : listings[l].status = "available" /\ listings[l].expired}

\* C26: the expiry sweep.  A call of expireOldListings changes the status
\* of exactly the listings that are available with expires_at passed, to
\* expired; it leaves every other listing and every exchange unchanged; it
\* returns the number of listings it changed; and after it no listing is
\* due, so that a second call at the same time changes nothing.
C26_ExpirySweep ==
    [][\A w \in Workers :
          (wk[w].pc = "idle" /\ wk'[w].op = "expire")
          => /\ \A l \in Due : listings'[l].status = "expired"
             /\ \A l \in Listings \ Due : listings'[l] = listings[l]
             /\ \A l \in Listings :
                   [listings'[l] EXCEPT !.status = "x"]
                     = [listings[l] EXCEPT !.status = "x"]
             /\ exchanges' = exchanges
             /\ wk'[w].pc = "done"
             /\ wk'[w].res = "ok"
             /\ wk'[w].n = Cardinality({l \in Listings :
                                           listings'[l] # listings[l]})
             /\ {l \in Listings : /\ listings'[l].status = "available"
                                   /\ listings'[l].expired} = {}]_vars

\* A sweep has expired one listing and left a reserved listing whose
\* expires_at has passed as it was.
C26_Witness ==
    \E w \in Workers :
        /\ wk[w].pc = "done"
        /\ wk[w].op = "expire"
        /\ wk[w].n = 1
        /\ \E l \in Listings :
              listings[l].status = "reserved" /\ listings[l].expired
        /\ \E l \in Listings : listings[l].status = "expired"

\* A createRating call of worker w returns or throws in this step.
RateEnds(w) ==
    wk[w].op = "rate" /\ wk[w].pc # "done" /\ wk'[w].pc = "done"

\* The ids of the ratings of exchange e given by rater u.
RatingsBy(e, u) ==
    {i \in RatingIds : ratings[i].exchange_id = e /\ ratings[i].rater_id = u}

\* C27: createRating succeeds only for a completed exchange, a rater who
\* is one of its two parties and who had not rated it; a call that fails
\* creates no rating and changes no user statistics; and every rating row
\* belongs to a completed exchange, its rater and rated user being the two
\* parties, one each.
C27_RatingPreconditions ==
    /\ [](\A i \in RatingIds :
            LET ent == exchanges[ratings[i].exchange_id]
            IN /\ ent.status = "completed"
               /\ ratings[i].rater_id # ratings[i].rated_user_id
               /\ {ratings[i].rater_id, ratings[i].rated_user_id}
                     = {ent.requester_id, ent.owner_id})
    /\ [][\A w \in Workers :
            /\ (RateEnds(w) /\ wk'[w].res = "ok")
                  => /\ exchanges'[wk[w].ex].status = "completed"
                     /\ IsParty(exchanges[wk[w].ex], wk[w].user)
                     /\ Cardinality(RatingsBy(wk[w].ex, wk[w].user)) = 1
            /\ (RateEnds(w) /\ wk'[w].res # "ok")
                  => /\ ratings' = ratings
                     /\ users' = users
                     /\ wk[w].pc \in {"idle", "rt_existing", "rt_insert"}
            /\ (wk'[w] # wk[w]
                  /\ wk'[w].pc \in {"rt_existing", "rt_other", "rt_insert"})
                  => (ratings' = ratings /\ users' = users)]_vars

\* C28: no two rating rows have the same exchange, rater and rated user,
\* also when one rater's two calls both pass the existing-rating query
\* before either inserts.
C28_OneRatingPerTriple ==
    \A i, j \in RatingIds :
        (/\ ratings[i].exchange_id = ratings[j].exchange_id
         /\ ratings[i].rater_id = ratings[j].rater_id
         /\ ratings[i].rated_user_id = ratings[j].rated_user_id) => i = j

\* Two calls of one rater passed the existing-rating query; one inserted
\* and is still running, the other's INSERT was refused.
C28_Witness ==
    \E w, x \in Workers :
        /\ wk[w].op = "rate" /\ wk[w].pc = "done" /\ wk[w].res = "query_failed"
        /\ wk[x].op = "rate" /\ wk[x].pc \in {"rt_stat_read", "rt_stat_write"}
        /\ wk[x].ex = wk[w].ex /\ wk[x].user = wk[w].user
        /\ Cardinality(RatingsBy(wk[w].ex, wk[w].user)) = 1

\* The ids of the ratings of exchange e.
RatingsOf(e) == {i \in RatingIds : ratings[i].exchange_id = e}

\* C29: the first rating of an exchange is inserted with is_visible false,
\* and when the other party's rating is there as a party's createRating
\* call returns, both ratings of the exchange are visible then.
C29_ReciprocalVisibility ==
    [][\A w \in Workers :
          /\ (/\ wk[w].op = "rate"
              /\ Len(ratings') = Len(ratings) + 1
              /\ RatingsOf(wk[w].ex) = {})
                => ~ratings'[Len(ratings')].is_visible
          /\ (/\ RateEnds(w)
              /\ wk'[w].res = "ok"
              /\ FindRating(wk[w].ex,
                            OtherParty(exchanges[wk[w].ex], wk[w].user),
                            wk[w].user) # 0)
                => \A i \in RatingIds :
                      ratings[i].exchange_id = wk[w].ex
                         => ratings'[i].is_visible]_vars

\* The second party's call has returned before the delay has passed: the
\* exchange has its two ratings, both visible.
C29_Witness ==
    \E w \in Workers :
        /\ wk[w].op = "rate" /\ wk[w].pc = "done" /\ wk[w].res = "ok"
        /\ wk[w].ex \notin aged
        /\ Cardinality(RatingsOf(wk[w].ex)) = 2
        /\ \A i \in RatingsOf(wk[w].ex) : ratings[i].is_visible

\* Rating i has a counterpart: the rating its rated user gave its rater for
\* the same exchange.
HasCounterpart(i) ==
    FindRating(ratings[i].exchange_id, ratings[i].rated_user_id,
               ratings[i].rater_id) # 0

\* C30: a visible rating has a counterpart or belongs to an exchange whose
\* completed_at is older than the visibility delay, and the ratings that
\* getRatingsForExchange, getRatingsForUser and getRatingStats find are
\* visible ones.
C30_VisibleByPolicy ==
    /\ [](\A i \in RatingIds :
            ratings[i].is_visible
               => (HasCounterpart(i) \/ ratings[i].exchange_id \in aged))
    /\ [][\A w \in Workers :
            (/\ wk[w].pc = "idle"
             /\ wk'[w].op \in {"ratings_of_exchange", "ratings_of_user"})
               => \A i \in wk'[w].acts : ratings[i].is_visible]_vars

\* getRatingsForExchange has returned the one rating of an exchange, which
\* the sweep made visible once the delay had passed.
C30_Witness ==
    \E w \in Workers :
        /\ wk[w].pc = "done"
        /\ wk[w].op = "ratings_of_exchange"
        /\ wk[w].acts # {}
        /\ wk[w].ex \in aged
        /\ Cardinality(RatingsOf(wk[w].ex)) = 1

\* Worker w runs makeOldRatingsVisible in this step.
Sweeps(w) == wk[w].pc = "idle" /\ wk'[w].op = "show_old"

C32_SweepCommutes ==
    \A e \in ExchangeIds, u \in Callers, v \in RatingValues :
        exchanges[e].status = "completed"
           => Rated(Shown(ratings, aged), e, exchanges[e], u, v)
                 = Shown(Rated(ratings, e, exchanges[e], u, v), aged)

\* The sum of the values of the first n ratings that rate user u.
RECURSIVE SumRatings(_, _)
SumRatings(u, n) ==
    IF n = 0 THEN 0
    ELSE SumRatings(u, n - 1)
           + (IF ratings[n].rated_user_id = u THEN ratings[n].rating ELSE 0)

\* No createRating call is under way.
NoRatingCall == \A w \in Workers : wk[w].op = "rate" => wk[w].pc = "done"

\* C33: when every createRating call has returned, each user's
\* total_ratings is the number of ratings that rate the user and rating
\* times total_ratings is the sum of their values (rating is held in
\* hundredths), also after two concurrent ratings of one user.
C33_StatsTrackRatings ==
    NoRatingCall
       => \A u \in Users :
             /\ users[u].total_ratings
                   = Cardinality({i \in RatingIds : ratings[i].rated_user_id = u})
             /\ users[u].rating * users[u].total_ratings
                   = 100 * SumRatings(u, Len(ratings))

\* The statistics update of worker w's createRating call fails in this
\* step: the call ends and no statistics are written.
StatsFails(w) ==
    /\ wk[w].pc \in {"rt_stat_read", "rt_stat_write"}
    /\ wk'[w].pc = "done"
    /\ users' = users

\* C34: when the statistics update fails, createRating still returns
\* success, and the rating saved and the other party's rating made visible
\* stay as they are.
C34_RatingDespiteStats ==
    [][\A w \in Workers :
          StatsFails(w) => (wk'[w].res = "ok" /\ ratings' = ratings)]_vars

\* C35: no step writes reserved to a listing that the expiry sweep has
\* moved to expired, whatever the interleaving of expireOldListings with the
\* check and the update of markAsReserved.
C35_ExpiredNotReserved ==
    [][\A l \in Listings :
          listings[l].status = "expired"
             => listings'[l].status # "reserved"]_vars

\* C36: once the createRating calls have returned, the two ratings the
\* parties of an exchange gave each other are both visible, also when the
\* two calls ran concurrently and each looked for the other's rating
\* before it was saved.
C36_BothRatedBothVisible ==
    NoRatingCall
       => \A i \in RatingIds : HasCounterpart(i) => ratings[i].is_visible

\* Worker w serves declineExchange called by the owner, or cancelExchange
\* called by a party, on an exchange it read as pending.
FromPending(rec) ==
    /\ rec.op \in {"decline", "cancel"}
    /\ rec.rd = "pending"
    /\ rec.ex \in ExchangeIds
    /\ IF rec.op = "decline" THEN rec.user = exchanges[rec.ex].owner_id
       ELSE IsParty(exchanges[rec.ex], rec.user)

\* C37: declineExchange by the owner and cancelExchange by a party, on a
\* pending exchange and one request at a time, are not rejected and end
\* with status declined and cancelled; no step of theirs changes the status
\* of a listing, another exchange, or a column of this exchange other than
\* status (confirmation flags, meetup data).
C37_PendingFrame ==
    [][\A w \in Workers :
          /\ (TakesUp(w) /\ FromPending(wk'[w])) => wk'[w].pc = "save_load"
          /\ (wk'[w] # wk[w] /\ wk[w].pc # "done" /\ FromPending(wk[w]))
                => /\ \A l \in Listings :
                         listings'[l].status = listings[l].status
                   /\ \A x \in ExchangeIds \ {wk[w].ex} :
                         exchanges'[x] = exchanges[x]
                   /\ [exchanges'[wk[w].ex] EXCEPT !.status = "pending"]
                         = [exchanges[wk[w].ex] EXCEPT !.status = "pending"]
                   /\ wk'[w].pc = "done"
                         => /\ wk'[w].res = "ok"
                            /\ exchanges'[wk[w].ex].status
                                  = IF wk[w].op = "decline" THEN "declined"
                                    ELSE "cancelled"]_vars

\* A pending exchange on a listing that is reserved for an accepted exchange
\* has been cancelled.
C37_Witness ==
    \E w \in Workers, x \in ExchangeIds :
        /\ wk[w].pc = "done" /\ wk[w].res = "ok"
        /\ wk[w].op = "cancel" /\ wk[w].rd = "pending"
        /\ exchanges[wk[w].ex].status = "cancelled"
        /\ x # wk[w].ex
        /\ exchanges[x].status = "accepted"
        /\ exchanges[x].listing_id = exchanges[wk[w].ex].listing_id
        /\ listings[exchanges[x].listing_id].status = "reserved"

\* C38: an accepted exchange that nobody cancels, and on which both parties
\* keep calling confirmCompletion, is eventually completed, whatever the
\* listing owners and the other exchanges do.
C38_EventuallyCompleted ==
    \A e \in 1..MaxLiveExchanges :
        (e \in ExchangeIds /\ exchanges[e].status = "accepted")
           ~> (e \in ExchangeIds /\ exchanges[e].status = "completed")

\* The rows verifyOTP can still verify: not verified, not expired.
Outstanding == {i \in 1..Len(otps) : ~otps[i].verified /\ ~otps[i].expired}

\* C39: the attempts of an OTP never exceed maxAttempts; no verifyOTP call
\* verifies an OTP once maxAttempts calls with a wrong code have been made;
\* and a call with a wrong code, made while an OTP is outstanding, adds one
\* to the attempts of an outstanding OTP.
C39_OtpAttemptLimit ==
    /\ [](\A i \in 1..Len(otps) : otps[i].attempts <= OtpMaxAttempts)
    /\ [][/\ (\E i \in 1..Len(otps) : otps'[i].verified /\ ~otps[i].verified)
                => tries < OtpMaxAttempts
          /\ (tries' = tries + 1 /\ Outstanding # {})
                => \E i \in Outstanding :
                      otps'[i].attempts = otps[i].attempts + 1]_vars

\* C40: no payment reference is behind two upgrades, and every upgrade of
\* a user was made with a successful subscription payment of that user.
C40_PaymentConsumedOnce ==
    /\ \A i, j \in 1..Len(upgrades) :
          upgrades[i][2] = upgrades[j][2] => i = j
    /\ \A i \in 1..Len(upgrades) :
          LET p == payments[upgrades[i][2]]
          IN /\ p.status = "success"
             /\ p.purpose = "subscription"
             /\ p.user_id = upgrades[i][1]

====
